---- MODULE Spec2Model ----
(***************************************************************************)
(* A model of actix-treblle: the Treblle builder (treblle.rs), the         *)
(* middleware's call future (middleware.rs), the response extractor        *)
(* (extractors.rs) and the telemetry record with its masking and dispatch  *)
(* (payload.rs).                                                           *)
(*                                                                         *)
(* Strings are sequences of one-character strings, so that to_lowercase,   *)
(* split and format are computed.  Bytes are sequences of byte values.     *)
(* A serde_json::Value is a tagged record; an Option is a sequence of      *)
(* length 0 (None) or 1 (Some).  A map is a function on its key set.       *)
(***************************************************************************)
EXTENDS Integers, Sequences, FiniteSets, TLC

VARIABLES
    \* ---- the exchange (Spec) ----
    builder,        \* the Treblle value being configured (treblle.rs 1-7)
    middleware,     \* the TreblleMiddleware made by new_transform, as an Option
    req,            \* the ServiceRequest in flight: match pattern, headers, payload
    origPayload,    \* the payload as it arrived (kept for comparison only)
    pc,             \* position of the call future
    request_body,   \* get_request_body's BytesMut accumulator
    treblle,        \* the TreblleData of the exchange, as an Option
    handlerSaw,     \* what the wrapped service received: an Option of the request
    handlerResp,    \* the ServiceResponse the wrapped service produced, as an Option
    service_response, \* the ServiceResponse after collect_data, as an Option
    result,         \* what the call future resolved to
    posts,          \* the POSTs started, each with its record, mode and state
    logged,         \* the records written by log::debug! in debug mode
    events,         \* the steps of the exchange, in the order they ran
    \* ---- mask_fields on its own (SpecMask) ----
    m_orig,         \* the record before masking
    m_data,         \* the record, masked m_count times
    m_fields,       \* the masking fields
    m_count,
    \* ---- get_response_body on its own (SpecBody) ----
    b_resp,         \* the ServiceResponse handed to get_response_body, as an Option
    b_out,          \* what it returned: the ServiceResponse and the Value, as an Option
    \* ---- the load time of a record (SpecTime) ----
    t_now,          \* what Utc::now() returns: the system's wall clock
    t_start,        \* TreblleData.start, as an Option
    t_stop,         \* the stamp taken by collect_data (kept for comparison only)
    t_load,         \* response.load_time, as an Option
    t_steps         \* changes of the clock so far

exVars == <<builder, middleware, req, origPayload, pc, request_body, treblle,
            handlerSaw, handlerResp, service_response, result, posts, logged,
            events>>
maskVars == <<m_orig, m_data, m_fields, m_count>>
bodyVars == <<b_resp, b_out>>
timeVars == <<t_now, t_start, t_stop, t_load, t_steps>>
vars == <<exVars, maskVars, bodyVars, timeVars>>

(***************************************************************************)
(* Bounds                                                                  *)
(***************************************************************************)
MaxChunks == 2      \* chunks in a request payload
MaxRoutes == 1      \* entries appended to ignored_routes
MaxNodes == 4       \* JSON nodes in the two bodies of a record, together
MaxHeaders == 2     \* entries in the two header maps of a record, together
MaxBytes == 3       \* bytes in a response body given to get_response_body
MaxClockSteps == 2  \* changes of the clock during one record's life
MaxMasks == 2       \* applications of mask_fields to one record

(***************************************************************************)
(* Strings                                                                 *)
(***************************************************************************)
None == <<>>
Some(v) == <<v>>

UpperCase ==
    [c \in {"A","B","C","D","E","F","G","H","I","J","K","L","M",
            "N","O","P","Q","R","S","T","U","V","W","X","Y","Z"} |->
        CASE c = "A" -> "a" [] c = "B" -> "b" [] c = "C" -> "c" [] c = "D" -> "d"
          [] c = "E" -> "e" [] c = "F" -> "f" [] c = "G" -> "g" [] c = "H" -> "h"
          [] c = "I" -> "i" [] c = "J" -> "j" [] c = "K" -> "k" [] c = "L" -> "l"
          [] c = "M" -> "m" [] c = "N" -> "n" [] c = "O" -> "o" [] c = "P" -> "p"
          [] c = "Q" -> "q" [] c = "R" -> "r" [] c = "S" -> "s" [] c = "T" -> "t"
          [] c = "U" -> "u" [] c = "V" -> "v" [] c = "W" -> "w" [] c = "X" -> "x"
          [] c = "Y" -> "y" [] c = "Z" -> "z"]

\* str::to_lowercase
to_lowercase(s) ==
    [i \in 1..Len(s) |-> IF s[i] \in DOMAIN UpperCase THEN UpperCase[s[i]] ELSE s[i]]

\* str::split(sep).collect::<Vec<&str>>(): never empty, "" gives [""]
RECURSIVE split(_, _)
split(s, sep) ==
    IF s = <<>> THEN << <<>> >>
    ELSE LET rest == split(Tail(s), sep)
         IN IF Head(s) = sep THEN << <<>> >> \o rest
            ELSE << <<Head(s)>> \o Head(rest) >> \o Tail(rest)

\* Vec::get(0).unwrap_or(&"")
get0_or_empty(v) == IF Len(v) >= 1 THEN v[1] ELSE <<>>

\* [String]::contains
contains(fields, key) == \E i \in 1..Len(fields) : fields[i] = key

s_authorization == <<"a","u","t","h","o","r","i","z","a","t","i","o","n">>
s_Authorization == <<"A","u","t","h","o","r","i","z","a","t","i","o","n">>
s_cookie == <<"c","o","o","k","i","e">>
s_Cookie == <<"C","o","o","k","i","e">>
s_password == <<"p","a","s","s","w","o","r","d">>
s_name == <<"n","a","m","e">>
s_Bearer_abc123 == <<"B","e","a","r","e","r"," ","a","b","c","1","2","3">>
s_Bearer_masked == <<"B","e","a","r","e","r"," ","*","*","*","*","*","*">>
s_abc123 == <<"a","b","c","1","2","3">>
s_abc123_masked == <<"a","b","c","1","2","3"," ","*","*","*","*","*","*">>
s_a_b_c == <<"a"," ","b"," ","c">>
s_space_x == <<" ","x">>
s_secret1 == <<"s","e","c","r","e","t","1">>

s_content_type == <<"c","o","n","t","e","n","t","-","t","y","p","e">>
s_application_json == <<"a","p","p","l","i","c","a","t","i","o","n","/","j","s","o","n">>
s_Application_JSON == <<"A","p","p","l","i","c","a","t","i","o","n","/","J","S","O","N">>
s_application_json_utf8 == <<"a","p","p","l","i","c","a","t","i","o","n","/","j","s","o","n",";"," ","c","h","a","r","s","e","t","=","u","t","f","-","8">>
s_text_plain == <<"t","e","x","t","/","p","l","a","i","n">>
s_pwd == <<"p","w","d">>
s_secret == <<"s","e","c","r","e","t">>
s_password_confirmation == <<"p","a","s","s","w","o","r","d","_","c","o","n","f","i","r","m","a","t","i","o","n">>
s_passwordConfirmation == <<"p","a","s","s","w","o","r","d","C","o","n","f","i","r","m","a","t","i","o","n">>
s_cc == <<"c","c">>
s_card_number == <<"c","a","r","d","_","n","u","m","b","e","r">>
s_cardNumber == <<"c","a","r","d","N","u","m","b","e","r">>
s_ccv == <<"c","c","v">>
s_ssn == <<"s","s","n">>
s_credit_score == <<"c","r","e","d","i","t","_","s","c","o","r","e">>
s_creditScore == <<"c","r","e","d","i","t","S","c","o","r","e">>
s_request_as_a_string == <<"r","e","q","u","e","s","t","_","a","s","_","a","_","s","t","r","i","n","g">>
s_request_as_raw_bytes == <<"r","e","q","u","e","s","t","_","a","s","_","r","a","w","_","b","y","t","e","s">>

\* the mask token "******" (payload.rs 222, 241, 243)
MaskToken == <<"*","*","*","*","*","*">>

(***************************************************************************)
(* serde_json::Value                                                       *)
(***************************************************************************)
JNull == [t |-> "null"]
JBool(b) == [t |-> "bool", b |-> b]
JNum(n) == [t |-> "num", n |-> n]
JStr(s) == [t |-> "str", s |-> s]
JArr(a) == [t |-> "arr", a |-> a]
JObj(o) == [t |-> "obj", o |-> o]

(***************************************************************************)
(* Masking (payload.rs 146-246)                                            *)
(***************************************************************************)

\* a slip that also walks the objects held in arrays
RECURSIVE clear_map_into_arrays(_, _)
clear_map_into_arrays(map, fields) ==
    [key \in DOMAIN map |->
        LET value == map[key]
        IN CASE value.t = "obj" -> JObj(clear_map_into_arrays(value.o, fields))
             [] value.t = "str" ->
                  IF contains(fields, key) THEN JStr(MaskToken) ELSE value
             [] value.t = "arr" /\ ~contains(fields, key) ->
                  JArr([i \in 1..Len(value.a) |->
                          IF value.a[i].t = "obj"
                          THEN JObj(clear_map_into_arrays(value.a[i].o, fields))
                          ELSE value.a[i]])
             [] OTHER ->
                  IF contains(fields, key) THEN JNull ELSE value]

RECURSIVE clear_map(_, _)
clear_map(map, fields) ==
    [key \in DOMAIN map |->
        LET value == map[key]
        IN CASE value.t = "obj" -> JObj(clear_map(value.o, fields))
             [] value.t = "str" ->
                  IF contains(fields, key) THEN JStr(MaskToken) ELSE value
             [] OTHER ->
                  IF contains(fields, key) THEN JNull ELSE value]

clear_value(value, fields) ==
    IF value.t = "obj" THEN JObj(clear_map(value.o, fields)) ELSE value

\* a slip that tests the masking fields before the authorization key
clear_hashmap_fields_first(map, fields) ==
    [key \in DOMAIN map |->
        IF contains(fields, key) THEN MaskToken
        ELSE IF to_lowercase(key) = s_authorization
             THEN get0_or_empty(split(map[key], " ")) \o <<" ">> \o MaskToken
             ELSE map[key]]

\* a slip that keeps the whole authorization value in front of the mask
clear_hashmap_appending(map, fields) ==
    [key \in DOMAIN map |->
        IF to_lowercase(key) = s_authorization
        THEN map[key] \o <<" ">> \o MaskToken
        ELSE IF contains(fields, key) THEN MaskToken
             ELSE map[key]]

clear_hashmap(map, fields) ==
    [key \in DOMAIN map |->
        IF to_lowercase(key) = s_authorization
        THEN get0_or_empty(split(map[key], " ")) \o <<" ">> \o MaskToken
        ELSE IF contains(fields, key) THEN MaskToken
             ELSE map[key]]

\* Option::map(|mut value| { clear_value(&mut value, &fields); value })
mask_body(body, fields) ==
    IF body = None THEN None ELSE Some(clear_value(body[1], fields))

mask_fields(data, fields) ==
    [data EXCEPT
        !.request.body = mask_body(data.request.body, fields),
        !.response.body = mask_body(data.response.body, fields),
        !.request.headers = clear_hashmap(data.request.headers, fields),
        !.response.headers = clear_hashmap(data.response.headers, fields)]

(***************************************************************************)
(* Bytes and their decoding.  The byte alphabet is '1' (49), 'x' (120) and *)
(* 0xFF (255): over it the JSON documents are exactly the digit strings,   *)
(* and the UTF-8 texts exactly the strings without 0xFF.                   *)
(***************************************************************************)
Bytes1 == {<<49>>, <<120>>, <<255>>}

RECURSIVE DecimalValue(_)
DecimalValue(bytes) ==
    IF bytes = <<>> THEN 0
    ELSE 10 * DecimalValue(SubSeq(bytes, 1, Len(bytes) - 1)) + (bytes[Len(bytes)] - 48)

\* serde_json::from_slice::<Value>: Some(value), or None for Err
from_slice(bytes) ==
    IF bytes # <<>> /\ \A i \in 1..Len(bytes) : bytes[i] = 49
    THEN Some(JNum(DecimalValue(bytes)))
    ELSE None

Char(b) == CASE b = 49 -> "1" [] b = 120 -> "x" [] OTHER -> "?"

\* String::from_utf8: Some(text), or None for Err
from_utf8(bytes) ==
    IF \A i \in 1..Len(bytes) : bytes[i] < 128
    THEN Some([i \in 1..Len(bytes) |-> Char(bytes[i])])
    ELSE None

\* format!("{:?}", bytes): b"..." with \xNN for what is not printable ASCII
RECURSIVE EscapeBytes(_)
EscapeBytes(bytes) ==
    IF bytes = <<>> THEN <<>>
    ELSE (IF Head(bytes) = 255 THEN <<"\\", "x", "f", "f">> ELSE <<Char(Head(bytes))>>)
         \o EscapeBytes(Tail(bytes))

DebugBytes(bytes) == <<"b", "\"">> \o EscapeBytes(bytes) \o <<"\"">>

\* middleware.rs 144-167: the Value get_request_body makes of the buffered bytes
request_value(bytes) ==
    IF bytes = <<>> THEN JNull
    ELSE IF from_slice(bytes) # None THEN from_slice(bytes)[1]
    ELSE IF from_utf8(bytes) # None
         THEN JObj([k \in {s_request_as_a_string} |-> JStr(from_utf8(bytes)[1])])
         ELSE JObj([k \in {s_request_as_raw_bytes} |-> JStr(DebugBytes(bytes))])

\* a slip that records nothing for a body that is not JSON
response_value_json_only(bytes_opt) ==
    IF bytes_opt = None THEN JNull
    ELSE LET b == bytes_opt[1]
         IN IF b = <<>> THEN JNull
            ELSE IF from_slice(b) # None THEN from_slice(b)[1]
            ELSE JNull

\* extractors.rs 139-154: the Value get_response_body makes of try_into_bytes' result
response_value(bytes_opt) ==
    IF bytes_opt = None THEN JNull
    ELSE LET b == bytes_opt[1]
         IN IF b = <<>> THEN JNull
            ELSE IF from_slice(b) # None THEN from_slice(b)[1]
            ELSE IF from_utf8(b) # None THEN JStr(from_utf8(b)[1])
            ELSE JStr(DebugBytes(b))

(***************************************************************************)
(* Payloads and bodies                                                     *)
(***************************************************************************)
OkChunk(bytes) == [ok |-> TRUE, bytes |-> bytes]
ErrChunk == [ok |-> FALSE, bytes |-> <<>>]
ChunkItems == {OkChunk(b) : b \in Bytes1} \cup {ErrChunk}

\* actix_http::Payload::None, the request's own stream, and h1::Payload
PayloadNone == [kind |-> "none", items |-> <<>>]
PayloadStream(items) == [kind |-> "stream", items |-> items]
PayloadH1(items) == [kind |-> "h1", items |-> items]

Payloads == UNION {{PayloadStream(items) : items \in [1..k -> ChunkItems]} : k \in 0..MaxChunks}

RECURSIVE Concat(_)
Concat(items) ==
    IF items = <<>> THEN <<>> ELSE Head(items).bytes \o Concat(Tail(items))

BodyNone == [kind |-> "none", bytes |-> <<>>]
BodyBytes(b) == [kind |-> "bytes", bytes |-> b]
BodyStream(b) == [kind |-> "stream", bytes |-> b]

\* a slip that consumes the body it has read and leaves an empty one
map_body_consuming(body) ==
    IF body.kind \in {"none", "bytes"} THEN BodyBytes(<<>>) ELSE body

\* extractors.rs 126-135: map_body with try_into_bytes; BoxBody::new(bytes)
map_body(body) ==
    IF body.kind \in {"none", "bytes"} THEN BodyBytes(body.bytes) ELSE body

\* MessageBody::try_into_bytes: Some(bytes) for Ok, None for Err(self)
try_into_bytes(body) ==
    IF body.kind \in {"none", "bytes"} THEN Some(body.bytes) ELSE None

\* extractors.rs 38-43
get_size(body) == IF body.kind = "bytes" THEN Len(body.bytes) ELSE 0

(***************************************************************************)
(* The builder (treblle.rs)                                                *)
(***************************************************************************)
DefaultMaskingFields ==
    <<s_password, s_pwd, s_secret, s_password_confirmation, s_passwordConfirmation,
      s_cc, s_card_number, s_cardNumber, s_ccv, s_ssn, s_credit_score, s_creditScore>>

\* Treblle::new
TreblleNew(project_id, api_key) ==
    [project_id |-> project_id, api_key |-> api_key, debug |-> FALSE,
     masking_fields |-> DefaultMaskingFields, ignored_routes |-> <<>>]

AddableFields == {<<s_cookie>>}
AddableRoutes == {<<"/health">>, <<"/users/{user_id}">>}

(***************************************************************************)
(* Requests, responses and the record                                      *)
(***************************************************************************)
MatchPatterns == {None, Some("/health"), Some("/users/{user_id}")}
ContentTypes ==
    {None, Some(s_Application_JSON), Some(s_application_json_utf8), Some(s_text_plain)}

\* every request carries an authorization header; content-type is optional
RequestHeaders(ct) ==
    IF ct = None THEN [k \in {s_authorization} |-> s_Bearer_abc123]
    ELSE [k \in {s_authorization, s_content_type} |->
            IF k = s_content_type THEN ct[1] ELSE s_Bearer_abc123]

ServiceResponses ==
    {[status |-> 200, headers |-> [k \in {s_content_type} |-> s_application_json],
      body |-> BodyBytes(<<49>>)],
     [status |-> 201, headers |-> [k \in {s_cookie} |-> s_abc123],
      body |-> BodyStream(<<120>>)],
     [status |-> 204, headers |-> <<>>, body |-> BodyNone],
     [status |-> 500, headers |-> <<>>, body |-> BodyBytes(<<120, 255>>)]}

\* payload.rs 104-113, with the Default of the request and response data
TreblleDataNew(api_key, project_id) ==
    [api_key |-> api_key, project_id |-> project_id, sdk |-> "rust",
     request |-> [headers |-> <<>>, body |-> None],
     response |-> [headers |-> <<>>, code |-> None, size |-> None, body |-> None]]

\* payload.rs 116-118
add_request_body(data, body) == [data EXCEPT !.request.body = Some(body)]

\* payload.rs 121-144: the record after collect_data
collect_data_record(data, resp, request) ==
    [data EXCEPT
        !.request.headers = request.headers,
        !.response.headers = resp.headers,
        !.response.code = Some(resp.status),
        !.response.size = Some(get_size(resp.body)),
        !.response.body = Some(response_value(try_into_bytes(resp.body)))]

\* extractors.rs 124-138: the ServiceResponse get_response_body hands back
collect_data_response(resp) == [resp EXCEPT !.body = map_body(resp.body)]

\* a slip that inverts the test
skip_treblle_inverted(ignored_routes, match_pattern) ==
    ~contains(ignored_routes, IF match_pattern = None THEN "" ELSE match_pattern[1])

\* middleware.rs 67-69
skip_treblle(ignored_routes, match_pattern) ==
    contains(ignored_routes, IF match_pattern = None THEN "" ELSE match_pattern[1])

\* middleware.rs 112-117
content_type(headers) ==
    to_lowercase(IF s_content_type \in DOMAIN headers THEN headers[s_content_type] ELSE <<>>)

(***************************************************************************)
(* The load time (payload.rs 250-263).  A DateTime<Utc> is its timestamp()  *)
(* and its timestamp_subsec_micros().  An f64 between 2^30 and 2^31, where  *)
(* the timestamps of the years 2004 to 2038 lie, is a multiple of 2^-22: it *)
(* is kept as its whole seconds and its count of 2^-22 units.               *)
(***************************************************************************)
DateTime(secs, micros) == [secs |-> secs, micros |-> micros]

MicrosPerSec == 1000000
F64UnitsPerSec == 2^22
FiveDecimals == 10^5

\* num / den rounded to the nearest integer, a tie to the even one (num >= 0)
RoundHalfEven(num, den) ==
    LET q == num \div den
        r == num % den
    IN IF 2 * r > den \/ (2 * r = den /\ q % 2 = 1) THEN q + 1 ELSE q

\* payload.rs 252-254, 256-258: seconds as f64 + micros as f64 / 1000000_f64,
\* the sum rounded to the f64 grid (2^22 / 10^6 is taken as 2^16 / 5^6)
f64_with_micros(t) ==
    LET den == MicrosPerSec \div 64
        mul == F64UnitsPerSec \div 64
    IN [secs |-> t.secs,
        units |-> (t.micros \div den) * mul + RoundHalfEven((t.micros % den) * mul, den)]

\* payload.rs 260: end_with_micros - start_with_micros, exact on the grid
f64_sub(a, b) == [secs |-> a.secs - b.secs, units |-> a.units - b.units]

DigitChar(d) ==
    CASE d = 0 -> "0" [] d = 1 -> "1" [] d = 2 -> "2" [] d = 3 -> "3" [] d = 4 -> "4"
      [] d = 5 -> "5" [] d = 6 -> "6" [] d = 7 -> "7" [] d = 8 -> "8" [] OTHER -> "9"

RECURSIVE Digits(_)
Digits(n) == IF n < 10 THEN <<DigitChar(n)>> ELSE Append(Digits(n \div 10), DigitChar(n % 10))

RECURSIVE PadDigits(_, _)
PadDigits(n, width) ==
    IF width = 0 THEN <<>> ELSE Append(PadDigits(n \div 10, width - 1), DigitChar(n % 10))

\* payload.rs 262: format!("{:.5}", duration), the f64 rounded to five decimals
\* with a tie to the even digit, "-" in front of a negative one
format_5(d) ==
    LET neg == d.secs < 0 \/ (d.secs = 0 /\ d.units < 0)
        s1 == IF neg THEN 0 - d.secs ELSE d.secs
        u1 == IF neg THEN 0 - d.units ELSE d.units
        whole == IF u1 < 0 THEN s1 - 1 ELSE s1
        u == IF u1 < 0 THEN u1 + F64UnitsPerSec ELSE u1
        den == F64UnitsPerSec \div 32
        mul == FiveDecimals \div 32
        n == whole * FiveDecimals + (u \div den) * mul + RoundHalfEven((u % den) * mul, den)
    IN (IF neg THEN <<"-">> ELSE <<>>)
       \o Digits(n \div FiveDecimals) \o <<".">> \o PadDigits(n % FiveDecimals, 5)

\* payload.rs 250-263; now is what Utc::now() returns when end is None
get_seconds_with_micro(start, end, now) ==
    LET e == IF end = None THEN now ELSE end[1]
    IN format_5(f64_sub(f64_with_micros(e), f64_with_micros(start)))

(***************************************************************************)
(* Results and delivery                                                    *)
(***************************************************************************)
Pending == [kind |-> "pending"]
Ok(resp) == [kind |-> "ok", resp |-> resp]
Err(e) == [kind |-> "err", e |-> e]
Panic == [kind |-> "panic"]

\* what reqwest's send() can come to: a response (2xx or not), a response whose
\* body cannot be read, a transport error, the timeout
DeliveryOutcomes == {"ok_2xx", "non_2xx", "body_error", "transport_error", "timeout"}
SendErrs == {"transport_error", "timeout"}

\* payload.rs 173, 186: the send timeout, in seconds
SendTimeoutSecs == 2

Post(data, mode) ==
    [url |-> "https://rocknrolla.treblle.com", x_api_key |-> data.api_key,
     timeout |-> SendTimeoutSecs, record |-> data, mode |-> mode, state |-> "inflight"]

\* a slip that lets the spawned send's error reach the caller
spawned_result_propagating(outcome, current) ==
    IF outcome \in SendErrs THEN Panic ELSE current

\* payload.rs 169-178: let _ = ... .send().await inside tokio::spawn
spawned_result(outcome, current) == current

\* a slip that swallows the error in debug mode too
debug_result_swallowing(outcome, sr) == Ok(sr)

\* payload.rs 192-200 and middleware.rs 103
debug_result(outcome, sr) ==
    IF outcome \in SendErrs THEN Panic ELSE Ok(sr)

(***************************************************************************)
(* The exchange: builder calls, new_transform, then one call future        *)
(***************************************************************************)
ExInit ==
    /\ builder = TreblleNew("project_id", "api_key")
    /\ middleware = None
    /\ req = None
    /\ origPayload = None
    /\ pc = "build"
    /\ request_body = <<>>
    /\ treblle = None
    /\ handlerSaw = None
    /\ handlerResp = None
    /\ service_response = None
    /\ result = Pending
    /\ posts = <<>>
    /\ logged = <<>>
    /\ events = <<>>

MaskIdle ==
    /\ m_orig = None
    /\ m_data = None
    /\ m_fields = <<>>
    /\ m_count = 0

BodyIdle ==
    /\ b_resp = None
    /\ b_out = None

TimeIdle ==
    /\ t_now = DateTime(0, 0)
    /\ t_start = None
    /\ t_stop = None
    /\ t_load = None
    /\ t_steps = 0

\* treblle.rs 60-63
Debug ==
    /\ pc = "build"
    /\ builder' = [builder EXCEPT !.debug = TRUE]
    /\ UNCHANGED <<middleware, req, origPayload, pc, request_body, treblle, handlerSaw,
                   handlerResp, service_response, result, posts, logged, events>>
    /\ UNCHANGED <<maskVars, bodyVars, timeVars>>

\* treblle.rs 81-84
ClearMaskingFields ==
    /\ pc = "build"
    /\ builder' = [builder EXCEPT !.masking_fields = <<>>]
    /\ UNCHANGED <<middleware, req, origPayload, pc, request_body, treblle, handlerSaw,
                   handlerResp, service_response, result, posts, logged, events>>
    /\ UNCHANGED <<maskVars, bodyVars, timeVars>>

\* treblle.rs 121-124; names already in the list are not added again here
AddMaskingFields ==
    /\ pc = "build"
    /\ \E fields \in AddableFields :
        /\ \A i \in 1..Len(fields) : ~contains(builder.masking_fields, fields[i])
        /\ builder' = [builder EXCEPT !.masking_fields = @ \o fields]
    /\ UNCHANGED <<middleware, req, origPayload, pc, request_body, treblle, handlerSaw,
                   handlerResp, service_response, result, posts, logged, events>>
    /\ UNCHANGED <<maskVars, bodyVars, timeVars>>

\* treblle.rs 146-149
AddIgnoredRoutes ==
    /\ pc = "build"
    /\ \E routes \in AddableRoutes :
        /\ Len(builder.ignored_routes) + Len(routes) <= MaxRoutes
        /\ builder' = [builder EXCEPT !.ignored_routes = @ \o routes]
    /\ UNCHANGED <<middleware, req, origPayload, pc, request_body, treblle, handlerSaw,
                   handlerResp, service_response, result, posts, logged, events>>
    /\ UNCHANGED <<maskVars, bodyVars, timeVars>>

\* middleware.rs 32-41
NewTransform ==
    /\ pc = "build"
    /\ middleware' = Some([project_id |-> builder.project_id,
                           api_key |-> builder.api_key,
                           debug |-> builder.debug,
                           masking_fields |-> builder.masking_fields,
                           ignored_routes |-> builder.ignored_routes])
    /\ pc' = "idle"
    /\ UNCHANGED <<builder, req, origPayload, request_body, treblle, handlerSaw,
                   handlerResp, service_response, result, posts, logged, events>>
    /\ UNCHANGED <<maskVars, bodyVars, timeVars>>

\* middleware.rs 66-84: the synchronous part of call; a skipped request goes
\* straight to the wrapped service
Call ==
    /\ pc = "idle"
    /\ \E pattern \in MatchPatterns, ct \in ContentTypes, payload \in Payloads :
        LET r == [match_pattern |-> pattern, headers |-> RequestHeaders(ct),
                  payload |-> payload]
        IN /\ origPayload' = Some(payload)
           /\ IF skip_treblle(middleware[1].ignored_routes, pattern)
              THEN /\ req' = None
                   /\ handlerSaw' = Some(r)
                   /\ pc' = "skip_await"
                   /\ events' = Append(events, "call")
              ELSE /\ req' = Some(r)
                   /\ handlerSaw' = handlerSaw
                   /\ pc' = "start"
                   /\ events' = events
    /\ UNCHANGED <<builder, middleware, request_body, treblle, handlerResp,
                   service_response, result, posts, logged>>
    /\ UNCHANGED <<maskVars, bodyVars, timeVars>>

\* middleware.rs 74-76: the skipped request's future is the service's own
SkipServiceReturns ==
    /\ pc = "skip_await"
    /\ \E resp \in ServiceResponses :
        /\ handlerResp' = Some(resp)
        /\ result' = Ok(resp)
    /\ pc' = "done"
    /\ events' = Append(events, "response")
    /\ UNCHANGED <<builder, middleware, req, origPayload, request_body, treblle,
                   handlerSaw, service_response, posts, logged>>
    /\ UNCHANGED <<maskVars, bodyVars, timeVars>>

SkipServiceFails ==
    /\ pc = "skip_await"
    /\ result' = Err("service")
    /\ pc' = "done"
    /\ UNCHANGED <<builder, middleware, req, origPayload, request_body, treblle,
                   handlerSaw, handlerResp, service_response, posts, logged, events>>
    /\ UNCHANGED <<maskVars, bodyVars, timeVars>>

\* middleware.rs 86 and 112-134: TreblleData::new, then get_request_body up to
\* its content-type test; a body that is not application/json is recorded as Null
NewRecord ==
    /\ pc = "start"
    /\ LET mw == middleware[1]
           data == TreblleDataNew(mw.api_key, mw.project_id)
       IN IF content_type(req[1].headers) # s_application_json
          THEN /\ treblle' = Some(add_request_body(data, JNull))
               /\ pc' = "call_service"
               /\ events' = events \o <<"new", "add_request_body">>
          ELSE /\ treblle' = Some(data)
               /\ pc' = "read"
               /\ events' = Append(events, "new")
    /\ request_body' = <<>>
    /\ UNCHANGED <<builder, middleware, req, origPayload, handlerSaw, handlerResp,
                   service_response, result, posts, logged>>
    /\ UNCHANGED <<maskVars, bodyVars, timeVars>>

\* middleware.rs 135-136: sr.take_payload().next().await gives Some(Ok(chunk)).
\* take_payload leaves Payload::None in the request; the payload taken is a
\* temporary of the loop's condition and is dropped with what it still holds
ReadChunkOk ==
    /\ pc = "read"
    /\ LET p == req[1].payload
       IN /\ p.items # <<>>
          /\ Head(p.items).ok
          /\ request_body' = request_body \o Head(p.items).bytes
    /\ req' = Some([req[1] EXCEPT !.payload = PayloadNone])
    /\ UNCHANGED <<builder, middleware, origPayload, pc, treblle, handlerSaw,
                   handlerResp, service_response, result, posts, logged, events>>
    /\ UNCHANGED <<maskVars, bodyVars, timeVars>>

\* middleware.rs 136, 87: chunk? returns the payload error out of the call future
ReadChunkErr ==
    /\ pc = "read"
    /\ LET p == req[1].payload
       IN /\ p.items # <<>>
          /\ ~Head(p.items).ok
    /\ req' = Some([req[1] EXCEPT !.payload = PayloadNone])
    /\ result' = Err("payload")
    /\ pc' = "done"
    /\ UNCHANGED <<builder, middleware, origPayload, request_body, treblle, handlerSaw,
                   handlerResp, service_response, posts, logged, events>>
    /\ UNCHANGED <<maskVars, bodyVars, timeVars>>

\* middleware.rs 135, 138-167 and 87: next() gives None; the bytes read are put
\* back as a fresh h1 payload and decoded into the record
FinishCapture ==
    /\ pc = "read"
    /\ req[1].payload.items = <<>>
    /\ req' = Some([req[1] EXCEPT !.payload = PayloadH1(<<OkChunk(request_body)>>)])
    /\ treblle' = Some(add_request_body(treblle[1], request_value(request_body)))
    /\ pc' = "call_service"
    /\ events' = Append(events, "add_request_body")
    /\ UNCHANGED <<builder, middleware, origPayload, request_body, handlerSaw,
                   handlerResp, service_response, result, posts, logged>>
    /\ UNCHANGED <<maskVars, bodyVars, timeVars>>

\* middleware.rs 89: svc.call(req)
CallService ==
    /\ pc = "call_service"
    /\ handlerSaw' = Some(req[1])
    /\ req' = None
    /\ pc' = "await_service"
    /\ events' = Append(events, "call")
    /\ UNCHANGED <<builder, middleware, origPayload, request_body, treblle, handlerResp,
                   service_response, result, posts, logged>>
    /\ UNCHANGED <<maskVars, bodyVars, timeVars>>

\* middleware.rs 89: .await gives Ok(response)
ServiceReturns ==
    /\ pc = "await_service"
    /\ \E resp \in ServiceResponses : handlerResp' = Some(resp)
    /\ pc' = "collect"
    /\ events' = Append(events, "response")
    /\ UNCHANGED <<builder, middleware, req, origPayload, request_body, treblle,
                   handlerSaw, service_response, result, posts, logged>>
    /\ UNCHANGED <<maskVars, bodyVars, timeVars>>

\* middleware.rs 89: .await? gives Err
ServiceFails ==
    /\ pc = "await_service"
    /\ result' = Err("service")
    /\ pc' = "done"
    /\ UNCHANGED <<builder, middleware, req, origPayload, request_body, treblle,
                   handlerSaw, handlerResp, service_response, posts, logged, events>>
    /\ UNCHANGED <<maskVars, bodyVars, timeVars>>

\* a slip that hands the record to dispatch without masking it
CollectDataSkippingMask ==
    /\ pc = "collect"
    /\ service_response' = Some(collect_data_response(handlerResp[1]))
    /\ treblle' = Some(collect_data_record(treblle[1], handlerResp[1], handlerSaw[1]))
    /\ pc' = "dispatch"
    /\ events' = Append(events, "collect_data")
    /\ UNCHANGED <<builder, middleware, req, origPayload, request_body, handlerSaw,
                   handlerResp, result, posts, logged>>
    /\ UNCHANGED <<maskVars, bodyVars, timeVars>>

\* middleware.rs 91
CollectData ==
    /\ pc = "collect"
    /\ service_response' = Some(collect_data_response(handlerResp[1]))
    /\ treblle' = Some(collect_data_record(treblle[1], handlerResp[1], handlerSaw[1]))
    /\ pc' = "mask"
    /\ events' = Append(events, "collect_data")
    /\ UNCHANGED <<builder, middleware, req, origPayload, request_body, handlerSaw,
                   handlerResp, result, posts, logged>>
    /\ UNCHANGED <<maskVars, bodyVars, timeVars>>

\* middleware.rs 94
MaskFields ==
    /\ pc = "mask"
    /\ treblle' = Some(mask_fields(treblle[1], middleware[1].masking_fields))
    /\ pc' = "dispatch"
    /\ events' = Append(events, "mask_fields")
    /\ UNCHANGED <<builder, middleware, req, origPayload, request_body, handlerSaw,
                   handlerResp, service_response, result, posts, logged>>
    /\ UNCHANGED <<maskVars, bodyVars, timeVars>>

\* middleware.rs 99-103 and payload.rs 168-179: the send is spawned and the
\* future resolves at once
Send ==
    /\ pc = "dispatch"
    /\ ~middleware[1].debug
    /\ posts' = Append(posts, Post(treblle[1], "spawned"))
    /\ treblle' = None
    /\ result' = Ok(service_response[1])
    /\ pc' = "done"
    /\ events' = Append(events, "send")
    /\ UNCHANGED <<builder, middleware, req, origPayload, request_body, handlerSaw,
                   handlerResp, service_response, logged>>
    /\ UNCHANGED <<maskVars, bodyVars, timeVars>>

\* payload.rs 169-178: the spawned task's send ends, whenever it does
SpawnedSendCompletes ==
    /\ \E i \in 1..Len(posts), outcome \in DeliveryOutcomes :
        /\ posts[i].mode = "spawned"
        /\ posts[i].state = "inflight"
        /\ posts' = [posts EXCEPT ![i].state = outcome]
        /\ result' = spawned_result(outcome, result)
    /\ UNCHANGED <<builder, middleware, req, origPayload, pc, request_body, treblle,
                   handlerSaw, handlerResp, service_response, logged, events>>
    /\ UNCHANGED <<maskVars, bodyVars, timeVars>>

\* middleware.rs 96-98 and payload.rs 182-190: log the record, start the send
SendDebug ==
    /\ pc = "dispatch"
    /\ middleware[1].debug
    /\ logged' = Append(logged, treblle[1])
    /\ posts' = Append(posts, Post(treblle[1], "awaited"))
    /\ treblle' = None
    /\ pc' = "await_send"
    /\ events' = Append(events, "send_debug")
    /\ UNCHANGED <<builder, middleware, req, origPayload, request_body, handlerSaw,
                   handlerResp, service_response, result>>
    /\ UNCHANGED <<maskVars, bodyVars, timeVars>>

\* payload.rs 190-200 and middleware.rs 103: the awaited send ends
SendDebugCompletes ==
    /\ pc = "await_send"
    /\ \E outcome \in DeliveryOutcomes :
        /\ posts' = [posts EXCEPT ![Len(posts)].state = outcome]
        /\ result' = debug_result(outcome, service_response[1])
    /\ pc' = "done"
    /\ UNCHANGED <<builder, middleware, req, origPayload, request_body, treblle,
                   handlerSaw, handlerResp, service_response, logged, events>>
    /\ UNCHANGED <<maskVars, bodyVars, timeVars>>

Init == ExInit /\ MaskIdle /\ BodyIdle /\ TimeIdle

Next ==
    \/ Debug
    \/ ClearMaskingFields
    \/ AddMaskingFields
    \/ AddIgnoredRoutes
    \/ NewTransform
    \/ Call
    \/ SkipServiceReturns
    \/ SkipServiceFails
    \/ NewRecord
    \/ ReadChunkOk
    \/ ReadChunkErr
    \/ FinishCapture
    \/ CallService
    \/ ServiceReturns
    \/ ServiceFails
    \/ CollectData
    \/ MaskFields
    \/ Send
    \/ SpawnedSendCompletes
    \/ SendDebug
    \/ SendDebugCompletes

Spec == Init /\ [][Next]_vars

(***************************************************************************)
(* mask_fields on its own: a record drawn from bounded sets, masked up to  *)
(* MaxMasks times                                                          *)
(***************************************************************************)
JKeys == {s_password, s_name}
JLeaves == {JNull, JNum(1), JStr(s_secret1)}

\* the values of exactly n nodes: leaves, the empty array and object, arrays
\* of one element, objects of one or two keys
RECURSIVE JsonOfSize(_)
JsonOfSize(n) ==
    IF n <= 1 THEN JLeaves \cup {JArr(<<>>), JObj(<<>>)}
    ELSE {JArr(<<v>>) : v \in JsonOfSize(n - 1)}
         \cup {JObj([k \in {key} |-> v]) : key \in JKeys, v \in JsonOfSize(n - 1)}
         \cup UNION {{JObj([k \in JKeys |-> IF k = s_password THEN v ELSE w]) :
                        v \in JsonOfSize(i), w \in JsonOfSize(n - 1 - i)} :
                     i \in 1..(n - 2)}

BodyPairs ==
    UNION {JsonOfSize(ij[1]) \X JsonOfSize(ij[2]) :
             ij \in {x \in (1..MaxNodes) \X (1..MaxNodes) : x[1] + x[2] <= MaxNodes}}

HKeys == {s_authorization, s_Authorization, s_cookie, s_Cookie}
HVals == {s_Bearer_abc123, s_abc123, s_a_b_c, s_space_x, <<>>}

HeaderMapsOfSize(n) ==
    UNION {[D -> HVals] : D \in {S \in SUBSET HKeys : Cardinality(S) = n}}

HeaderPairs ==
    UNION {HeaderMapsOfSize(ij[1]) \X HeaderMapsOfSize(ij[2]) :
             ij \in {x \in (0..MaxHeaders) \X (0..MaxHeaders) : x[1] + x[2] <= MaxHeaders}}

FieldChoices ==
    {<<>>, <<s_password>>, <<s_cookie, s_authorization>>,
     <<s_name, s_password, s_Authorization, s_Cookie>>}

MaskRecord(reqBody, respBody, reqHeaders, respHeaders) ==
    [api_key |-> "api_key", project_id |-> "project_id", sdk |-> "rust",
     request |-> [headers |-> reqHeaders, body |-> reqBody],
     response |-> [headers |-> respHeaders, code |-> Some(200), size |-> Some(0),
                   body |-> respBody]]

\* records with bodies of up to MaxNodes nodes together (an absent body has
\* no node), and records with header maps of up to MaxHeaders entries together
MaskInputs ==
    {MaskRecord(Some(v), None, [k \in {s_authorization} |-> s_a_b_c], <<>>) :
        v \in UNION {JsonOfSize(n) : n \in 1..MaxNodes}}
    \cup
    {MaskRecord(Some(bp[1]), Some(bp[2]),
                [k \in {s_authorization} |-> s_Bearer_abc123], <<>>) :
        bp \in BodyPairs}
    \cup
    {MaskRecord(Some(JObj([k \in {s_password} |-> JStr(s_secret1)])), None, hp[1], hp[2]) :
        hp \in HeaderPairs}

InitMask ==
    /\ ExInit
    /\ BodyIdle
    /\ TimeIdle
    /\ m_fields \in FieldChoices
    /\ m_orig \in {Some(d) : d \in MaskInputs}
    /\ m_data = m_orig[1]
    /\ m_count = 0

\* payload.rs 148-165
MaskFieldsOp ==
    /\ m_count < MaxMasks
    /\ m_data' = mask_fields(m_data, m_fields)
    /\ m_count' = m_count + 1
    /\ UNCHANGED <<m_orig, m_fields>>
    /\ UNCHANGED <<exVars, bodyVars, timeVars>>

NextMask == MaskFieldsOp

SpecMask == InitMask /\ [][NextMask]_vars

(***************************************************************************)
(* get_response_body on its own: a response drawn from bounded sets         *)
(***************************************************************************)
ByteStrings(n) == UNION {[1..k -> {49, 120, 255}] : k \in 0..n}

ResponseHeaderChoices ==
    {<<>>} \cup {[k \in {s_content_type} |-> ct] : ct \in {s_application_json, s_text_plain}}

BodyInputs ==
    {[status |-> 200, headers |-> h, body |-> b] :
        h \in ResponseHeaderChoices,
        b \in {BodyNone} \cup {BodyBytes(x) : x \in ByteStrings(MaxBytes)}
                         \cup {BodyStream(x) : x \in ByteStrings(MaxBytes)}}

InitBody ==
    /\ ExInit
    /\ MaskIdle
    /\ TimeIdle
    /\ b_resp \in {Some(r) : r \in BodyInputs}
    /\ b_out = None

\* extractors.rs 124-156
GetResponseBody ==
    /\ b_out = None
    /\ b_out' = Some([response |-> collect_data_response(b_resp[1]),
                       value |-> response_value(try_into_bytes(b_resp[1].body))])
    /\ UNCHANGED b_resp
    /\ UNCHANGED <<exVars, maskVars, timeVars>>

NextBody == GetResponseBody

SpecBody == InitBody /\ [][NextBody]_vars

(***************************************************************************)
(* The load time of one record: the start stamped by TreblleData::new, the *)
(* stop taken by collect_data, and the system clock that Utc::now() reads, *)
(* which runs forward and can be set back                                   *)
(***************************************************************************)
StartStamps == {DateTime(1762300800, m) : m \in {0, 13, 999999}}

\* changes of the clock, as seconds and microseconds
ClockSteps ==
    {DateTime(0, 1), DateTime(0, 5), DateTime(0, 2000), DateTime(0, 15625),
     DateTime(0, 200000), DateTime(500, 0)}

Later(t, d) ==
    LET m == t.micros + d.micros
    IN DateTime(t.secs + d.secs + (m \div MicrosPerSec), m % MicrosPerSec)

Earlier(t, d) ==
    LET m == t.micros + MicrosPerSec - d.micros
    IN DateTime(t.secs - d.secs - 1 + (m \div MicrosPerSec), m % MicrosPerSec)

InitTime ==
    /\ ExInit
    /\ MaskIdle
    /\ BodyIdle
    /\ t_now \in StartStamps
    /\ t_start = None
    /\ t_stop = None
    /\ t_load = None
    /\ t_steps = 0

\* time passes between two reads of Utc::now()
ClockAdvances ==
    /\ t_steps < MaxClockSteps
    /\ \E d \in ClockSteps : t_now' = Later(t_now, d)
    /\ t_steps' = t_steps + 1
    /\ UNCHANGED <<t_start, t_stop, t_load>>
    /\ UNCHANGED <<exVars, maskVars, bodyVars>>

\* the system clock is set back between two reads of Utc::now(): it is the
\* wall clock, which an operator or a time service can adjust
ClockSetBack ==
    /\ t_steps < MaxClockSteps
    /\ \E d \in ClockSteps : t_now' = Earlier(t_now, d)
    /\ t_steps' = t_steps + 1
    /\ UNCHANGED <<t_start, t_stop, t_load>>
    /\ UNCHANGED <<exVars, maskVars, bodyVars>>

\* payload.rs 104-113: start: Utc::now()
TimeNew ==
    /\ t_start = None
    /\ t_start' = Some(t_now)
    /\ UNCHANGED <<t_now, t_stop, t_load, t_steps>>
    /\ UNCHANGED <<exVars, maskVars, bodyVars>>

\* payload.rs 141: load_time = Some(get_seconds_with_micro(self.start, None))
TimeCollectData ==
    /\ t_start # None
    /\ t_load = None
    /\ t_load' = Some(get_seconds_with_micro(t_start[1], None, t_now))
    /\ t_stop' = Some(t_now)
    /\ UNCHANGED <<t_now, t_start, t_steps>>
    /\ UNCHANGED <<exVars, maskVars, bodyVars>>

NextTime ==
    \/ ClockAdvances
    \/ ClockSetBack
    \/ TimeNew
    \/ TimeCollectData

SpecTime == InitTime /\ [][NextTime]_vars

(***************************************************************************)
(* Properties of the exchange (Spec)                                       *)
(***************************************************************************)
RouteSet(routes) == {routes[i] : i \in 1..Len(routes)}

\* the request of the exchange, wherever it is
HasRequest == req # None \/ handlerSaw # None
TheRequest == IF handlerSaw # None THEN handlerSaw[1] ELSE req[1]

\* the request's matched pattern is an entry of the ignored routes
OnIgnoredRoute ==
    /\ HasRequest
    /\ TheRequest.match_pattern # None
    /\ TheRequest.match_pattern[1] \in RouteSet(middleware[1].ignored_routes)

\* the request went through the record-building branch of call
Tracked ==
    /\ HasRequest
    /\ (IF TheRequest.match_pattern = None THEN "" ELSE TheRequest.match_pattern[1])
           \notin RouteSet(middleware[1].ignored_routes)

IsJsonRequest == HasRequest /\ content_type(TheRequest.headers) = s_application_json

AllOk(items) == \A i \in 1..Len(items) : items[i].ok

\* C1: on a tracked application/json request whose body arrives as any number
\* of chunks, the service reads exactly the bytes that arrived; on any other
\* content-type the service gets the payload as it arrived, unread.
C1_HandlerReadsOriginalBody ==
    (handlerSaw # None /\ Tracked) =>
        LET seen == handlerSaw[1].payload
            orig == origPayload[1]
        IN IF IsJsonRequest
           THEN AllOk(orig.items) =>
                    /\ AllOk(seen.items)
                    /\ Concat(seen.items) = Concat(orig.items)
           ELSE seen = orig

SameResponse(a, b) ==
    /\ a.status = b.status
    /\ a.headers = b.headers
    /\ a.body.bytes = b.body.bytes
    /\ IF b.body.kind = "stream" THEN a.body = b.body
       ELSE a.body = BodyBytes(b.body.bytes)

\* C2: on a tracked exchange whose service produced a response, the response
\* collect_data hands back, and the one the call future resolves to, has the
\* service's status, headers and body bytes: a body that try_into_bytes buffers
\* is replaced by a copy of the same bytes, a streaming body is kept.
C2_ResponseUnaltered ==
    (Tracked /\ handlerResp # None) =>
        /\ service_response # None => SameResponse(service_response[1], handlerResp[1])
        /\ result.kind = "ok" => SameResponse(result.resp, handlerResp[1])

C2_Witness ==
    /\ Tracked
    /\ handlerResp # None
    /\ handlerResp[1].body = BodyBytes(<<120, 255>>)
    /\ result.kind = "ok"

\* C5: with debug off, the call future resolves to Ok(the response) in the
\* step that spawns the send, while the send is still in flight, and stays so
\* whatever the send comes to; no delivery outcome makes it an error or a panic.
C5_FireAndForgetNeverFails ==
    (Tracked /\ ~middleware[1].debug) =>
        /\ result.kind # "panic"
        /\ result.kind = "err" => posts = <<>>
        /\ posts # <<>> =>
              /\ result = Ok(service_response[1])
              /\ pc = "done"

C5_Witness ==
    /\ Tracked
    /\ ~middleware[1].debug
    /\ posts # <<>>
    /\ posts[1].state = "inflight"
    /\ result.kind = "ok"

\* C6: a request whose matched pattern is an entry of ignored_routes makes no
\* record, has no body read, starts no POST and writes no log, in either mode;
\* the service gets the request as it arrived and its result is the result.
C6_IgnoredRouteBypasses ==
    OnIgnoredRoute =>
        /\ treblle = None
        /\ request_body = <<>>
        /\ service_response = None
        /\ posts = <<>>
        /\ logged = <<>>
        /\ handlerSaw # None
        /\ handlerSaw[1].payload = origPayload[1]
        /\ events \in {<<"call">>, <<"call", "response">>}
        /\ pc \in {"skip_await", "done"}
        /\ pc = "done" =>
              IF handlerResp # None THEN result = Ok(handlerResp[1])
              ELSE result = Err("service")

C6_Witness ==
    /\ OnIgnoredRoute
    /\ middleware[1].debug
    /\ IsJsonRequest
    /\ Len(origPayload[1].items) = MaxChunks
    /\ pc = "done"
    /\ result.kind = "ok"

\* C7: a fault in the payload stream of a tracked application/json request
\* does not abort the request: the service is still called, the request body
\* is recorded as null, and the call future does not resolve to the fault.
C7_PayloadFaultDoesNotAbort ==
    (Tracked /\ IsJsonRequest /\ ~AllOk(origPayload[1].items) /\ pc = "done") =>
        /\ handlerSaw # None
        /\ result # Err("payload")
        /\ posts # <<>> => posts[1].record.request.body = Some(JNull)

ExpectedEvents ==
    <<"new", "add_request_body", "call", "response", "collect_data", "mask_fields",
      IF middleware[1].debug THEN "send_debug" ELSE "send">>

IsPrefix(a, b) == Len(a) <= Len(b) /\ a = SubSeq(b, 1, Len(a))

\* C8: a tracked exchange runs record creation and request-body capture, the
\* service call, the service's completion, collect_data, mask_fields and the
\* dispatch once each and in that order; the dispatch is one POST, and the
\* record posted (and logged, in debug mode) is the masked one.
C8_StepsOnceInOrder ==
    Tracked =>
        /\ IsPrefix(events, ExpectedEvents)
        /\ Len(posts) <= 1
        /\ (handlerResp # None /\ pc \in {"await_send", "done"}) =>
              /\ events = ExpectedEvents
              /\ Len(posts) = 1
        /\ posts # <<>> =>
              /\ posts[1].record.request.headers[s_authorization] = s_Bearer_masked
              /\ posts[1].record =
                    mask_fields(
                        collect_data_record(
                            add_request_body(
                                TreblleDataNew(middleware[1].api_key, middleware[1].project_id),
                                IF IsJsonRequest THEN request_value(request_body) ELSE JNull),
                            handlerResp[1], handlerSaw[1]),
                        middleware[1].masking_fields)
              /\ middleware[1].debug => logged = <<posts[1].record>>
              /\ ~middleware[1].debug => logged = <<>>

C8_Witness ==
    /\ Tracked
    /\ pc = "done"
    /\ middleware[1].debug
    /\ Len(posts) = 1
    /\ posts[1].state = "ok_2xx"
    /\ events = ExpectedEvents

\* C9 as claimed: in debug mode every delivery error, a non-2xx collector
\* status included, keeps the call future from resolving to the response.
C9_EveryDeliveryErrorIsHard ==
    (Tracked /\ middleware[1].debug /\ posts # <<>>
        /\ posts[1].state \in {"transport_error", "timeout", "non_2xx"}) =>
            result.kind # "ok"

\* C9 amended: in debug mode the send is awaited, so the call future resolves
\* only after it ended; a send that fails before a response arrives (transport
\* error, timeout) panics; a send that gets a response, 2xx or not, even one
\* whose body cannot be read, lets the call future resolve to the response.
C9_DebugSendAwaited ==
    (Tracked /\ middleware[1].debug) =>
        /\ result.kind = "ok" =>
              /\ posts # <<>>
              /\ posts[1].state \in {"ok_2xx", "non_2xx", "body_error"}
        /\ posts # <<>> =>
              /\ posts[1].state = "inflight" => result = Pending
              /\ posts[1].state \in {"transport_error", "timeout"} => result = Panic
              /\ posts[1].state \in {"ok_2xx", "non_2xx", "body_error"} =>
                    result = Ok(service_response[1])

C9_Witness ==
    /\ Tracked
    /\ middleware[1].debug
    /\ posts # <<>>
    /\ posts[1].state = "timeout"
    /\ result = Panic

(***************************************************************************)
(* Properties of mask_fields (SpecMask)                                    *)
(***************************************************************************)
FieldSet == {m_fields[i] : i \in 1..Len(m_fields)}

IsMaskedForm(v) == v = JNull \/ v = JStr(MaskToken)

\* no key of the field set, at any depth of nested objects, still has the
\* value it had
RECURSIVE NoneRetained(_, _)
NoneRetained(before, after) ==
    (before.t = "obj" /\ after.t = "obj") =>
        \A key \in DOMAIN before.o \cap DOMAIN after.o :
            /\ key \in FieldSet =>
                  (after.o[key] # before.o[key] \/ IsMaskedForm(before.o[key]))
            /\ NoneRetained(before.o[key], after.o[key])

BodyNoneRetained(before, after) ==
    before # None => (after # None /\ NoneRetained(before[1], after[1]))

HeadersNoneRetained(before, after) ==
    \A key \in DOMAIN before \cap DOMAIN after :
        key \in FieldSet => after[key] # before[key]

\* C3: after mask_fields, no key of the field set keeps its value in the
\* request body, the response body, the request headers or the response
\* headers.
C3_NoSensitiveValueRetained ==
    m_count >= 1 =>
        /\ BodyNoneRetained(m_orig[1].request.body, m_data.request.body)
        /\ BodyNoneRetained(m_orig[1].response.body, m_data.response.body)
        /\ HeadersNoneRetained(m_orig[1].request.headers, m_data.request.headers)
        /\ HeadersNoneRetained(m_orig[1].response.headers, m_data.response.headers)

\* the value-type rule at every key of the field set, through nested objects
RECURSIVE FollowsTypeRule(_, _)
FollowsTypeRule(before, after) ==
    before.t = "obj" =>
        /\ after.t = "obj"
        /\ DOMAIN after.o = DOMAIN before.o
        /\ \A key \in DOMAIN before.o :
              IF key \in FieldSet
              THEN after.o[key] =
                       (IF before.o[key].t = "str" THEN JStr(MaskToken) ELSE JNull)
              ELSE FollowsTypeRule(before.o[key], after.o[key])

BodyFollowsTypeRule(before, after) ==
    before # None => (after # None /\ FollowsTypeRule(before[1], after[1]))

\* C4: at every key of the field set, at every depth of nested objects, a
\* string becomes "******" and a value of any other type becomes null.
C4_ValueTypeRule ==
    m_count >= 1 =>
        /\ BodyFollowsTypeRule(m_orig[1].request.body, m_data.request.body)
        /\ BodyFollowsTypeRule(m_orig[1].response.body, m_data.response.body)

IsAuthorizationKey(key) ==
    /\ Len(key) = Len(s_authorization)
    /\ \A i \in 1..Len(key) :
          \/ key[i] = s_authorization[i]
          \/ (key[i] \in DOMAIN UpperCase /\ UpperCase[key[i]] = s_authorization[i])

TextBeforeFirstSpace(s) ==
    LET spaces == {i \in 1..Len(s) : s[i] = " "}
    IN IF spaces = {} THEN s
       ELSE SubSeq(s, 1, (CHOOSE i \in spaces : \A j \in spaces : i <= j) - 1)

ExpectedHeader(key, value) ==
    IF IsAuthorizationKey(key) THEN TextBeforeFirstSpace(value) \o <<" ">> \o MaskToken
    ELSE IF key \in FieldSet THEN MaskToken
    ELSE value

HeadersRedacted(before, after) ==
    /\ DOMAIN after = DOMAIN before
    /\ \A key \in DOMAIN before :
          /\ after[key] = ExpectedHeader(key, before[key])
          /\ (IsAuthorizationKey(key) /\ before[key] = s_Bearer_abc123) =>
                after[key] = s_Bearer_masked
          /\ (IsAuthorizationKey(key) /\ before[key] = s_abc123) =>
                after[key] = s_abc123_masked

\* C10: mask_fields leaves each header map with the keys it had; an entry
\* whose key is "authorization" in any case becomes the text before its first
\* space, a space and "******"; any other entry becomes "******" exactly when
\* its key is in the field set; every other entry keeps its value.
C10_HeaderRedaction ==
    m_count = 1 =>
        /\ HeadersRedacted(m_orig[1].request.headers, m_data.request.headers)
        /\ HeadersRedacted(m_orig[1].response.headers, m_data.response.headers)

C10_Witness ==
    /\ m_count = 1
    /\ m_fields = <<s_cookie, s_authorization>>
    /\ DOMAIN m_orig[1].request.headers = {s_Authorization, s_Cookie}
    /\ m_orig[1].request.headers[s_Authorization] = s_Bearer_abc123
    /\ DOMAIN m_orig[1].response.headers = {}
    /\ m_data.request.headers[s_Authorization] = s_Bearer_masked
    /\ m_data.request.headers[s_Cookie] = m_orig[1].request.headers[s_Cookie]

\* C11: masking is idempotent: for every record (both bodies, both header
\* maps, authorization values with zero, one or several spaces) and every
\* field set, the record after two applications of mask_fields is the record
\* after one application (and so is the record after any further one).
C11_MaskIdempotent ==
    m_count >= 2 => m_data = mask_fields(m_orig[1], m_fields)

\* two applications done on a record whose authorization value has several
\* spaces, with a field set that changed a body and a header on the first one
C11_Witness ==
    /\ m_count = 2
    /\ m_fields = <<s_name, s_password, s_Authorization, s_Cookie>>
    /\ \E k \in DOMAIN m_orig[1].request.headers :
          /\ to_lowercase(k) = s_authorization
          /\ m_orig[1].request.headers[k] = s_a_b_c
    /\ m_orig[1].request.body # m_data.request.body
    /\ m_orig[1].request.headers # m_data.request.headers

RECURSIVE KeysKept(_, _)
\* every object of before is an object of after with the same keys, at every
\* depth the two trees share
KeysKept(before, after) ==
    before.t = "obj" =>
        /\ after.t = "obj"
        /\ DOMAIN after.o = DOMAIN before.o
        /\ \A k \in DOMAIN before.o : KeysKept(before.o[k], after.o[k])

RECURSIVE OutsideUnchanged(_, _, _)
\* a non-object root is as it was; under an object, the value of a key not in
\* F is as it was when it is not an object (arrays with all they hold
\* included), and is followed down when it is
OutsideUnchanged(before, after, F) ==
    IF before.t # "obj" THEN after = before
    ELSE /\ after.t = "obj"
         /\ DOMAIN after.o = DOMAIN before.o
         /\ \A k \in DOMAIN before.o :
                /\ (k \notin F /\ before.o[k].t # "obj") => after.o[k] = before.o[k]
                /\ (k \notin F /\ before.o[k].t = "obj") =>
                       OutsideUnchanged(before.o[k], after.o[k], F)

BodyFrame(before, after, F) ==
    IF before = None THEN after = None
    ELSE /\ after # None
         /\ KeysKept(before[1], after[1])
         /\ OutsideUnchanged(before[1], after[1], F)

\* C15: tree redaction changes nothing outside sensitive keys reached through
\* objects: no object key is added or removed, a non-object value of a key
\* not in the sensitive set is unchanged, an array that is the root or the
\* value of a non-sensitive key is identical whatever it holds, and a
\* non-object root is as it was.
C15_RedactionFrame ==
    m_count >= 1 =>
        /\ BodyFrame(m_orig[1].request.body, m_data.request.body, FieldSet)
        /\ BodyFrame(m_orig[1].response.body, m_data.response.body, FieldSet)

\* masked once: a request body {"name": [{"password": "secret1"}]} with
\* password sensitive, whose array is as it was
C15_Witness ==
    /\ m_count = 1
    /\ m_fields = <<s_password>>
    /\ m_orig[1].request.body =
          Some(JObj([k \in {s_name} |->
                       JArr(<<JObj([j \in {s_password} |-> JStr(s_secret1)])>>)]))
    /\ m_data.request.body = m_orig[1].request.body

\* the decoding the request body's bytes are to get under a content-type
ExpectedRequestBody(headers, bytes) ==
    IF content_type(headers) # s_application_json THEN JNull
    ELSE IF bytes = <<>> THEN JNull
    ELSE IF from_slice(bytes) # None THEN from_slice(bytes)[1]
    ELSE IF \A i \in 1..Len(bytes) : bytes[i] # 255
         THEN JObj([k \in {s_request_as_a_string} |-> JStr(from_utf8(bytes)[1])])
         ELSE JObj([k \in {s_request_as_raw_bytes} |-> JStr(DebugBytes(bytes))])

\* C12: the request body recorded for a tracked request whose bytes all arrive
\* is null whenever the lower-cased content-type is not exactly
\* "application/json", whatever the bytes; when it is, empty bytes give null,
\* valid JSON gives the parsed value, other valid UTF-8 gives
\* {"request_as_a_string": text} and invalid UTF-8 gives
\* {"request_as_raw_bytes": repr}, of the bytes of the whole body.
C12_RequestBodyDecoding ==
    (/\ treblle # None
     /\ pc \in {"call_service", "await_service", "collect", "mask"}
     /\ AllOk(origPayload[1].items)) =>
        treblle[1].request.body =
            Some(ExpectedRequestBody(TheRequest.headers, Concat(origPayload[1].items)))

(***************************************************************************)
(* Properties of get_response_body (SpecBody)                              *)
(***************************************************************************)
\* C13: response body decoding is not gated by content-type: for a body that
\* can be buffered, empty bytes give null, valid JSON gives the parsed value,
\* invalid JSON that is valid UTF-8 gives a string equal to that text, and
\* invalid UTF-8 gives a non-empty string; a streaming body gives null.
C13_ResponseBodyDecoding ==
    b_out # None =>
        LET body == b_resp[1].body
            bytes == body.bytes
            value == b_out[1].value
        IN IF body.kind = "stream" THEN value = JNull
           ELSE IF bytes = <<>> THEN value = JNull
           ELSE IF \A i \in 1..Len(bytes) : bytes[i] = 49
                THEN value = JNum(DecimalValue(bytes))
           ELSE IF \A i \in 1..Len(bytes) : bytes[i] # 255
                THEN value = JStr([i \in 1..Len(bytes) |-> Char(bytes[i])])
           ELSE value.t = "str" /\ value.s # <<>>

\* the text "1x" sent as application/json was decoded to the string "1x"
C13_Witness ==
    /\ b_out # None
    /\ b_resp[1].body = BodyBytes(<<49, 120>>)
    /\ b_resp[1].headers = [k \in {s_content_type} |-> s_application_json]
    /\ b_out[1].value = JStr(<<"1", "x">>)

(***************************************************************************)
(* Properties of the load time (SpecTime)                                  *)
(***************************************************************************)
DigitValue(c) ==
    CASE c = "1" -> 1 [] c = "2" -> 2 [] c = "3" -> 3 [] c = "4" -> 4 [] c = "5" -> 5
      [] c = "6" -> 6 [] c = "7" -> 7 [] c = "8" -> 8 [] c = "9" -> 9 [] OTHER -> 0

\* digits, a point, five digits
HasFiveDecimals(str) ==
    /\ Len(str) >= 7
    /\ \A i \in 1..Len(str) :
          IF i = Len(str) - 5 THEN str[i] = "."
          ELSE str[i] \in {"0", "1", "2", "3", "4", "5", "6", "7", "8", "9"}

\* the number a text of digits and a point stands for, in units of 10^-5
RECURSIVE ScaledValue(_)
ScaledValue(str) ==
    IF str = <<>> THEN 0
    ELSE LET front == SubSeq(str, 1, Len(str) - 1)
             last == str[Len(str)]
         IN IF last = "." THEN ScaledValue(front)
            ELSE 10 * ScaledValue(front) + DigitValue(last)

GapMicros(start, stop) ==
    (stop.secs - start.secs) * MicrosPerSec + stop.micros - start.micros

\* the text is the gap in seconds at five decimals: within half a unit of the
\* last decimal, hence the gap itself when it is a multiple of 10 microseconds
IsGapInSeconds(str, start, stop) ==
    /\ HasFiveDecimals(str)
    /\ 10 * ScaledValue(str) - GapMicros(start, stop) \in -5..5

LoadTimeAsClaimed(load, start, stop) ==
    /\ Head(load) # "-"
    /\ IsGapInSeconds(load, start, stop)
    /\ GapMicros(start, stop) = 2000 => load = <<"0", ".", "0", "0", "2", "0", "0">>
    /\ GapMicros(start, stop) = 200000 => load = <<"0", ".", "2", "0", "0", "0", "0">>
    /\ GapMicros(start, stop) = 500 * MicrosPerSec =>
           load = <<"5", "0", "0", ".", "0", "0", "0", "0", "0">>
    /\ \A d \in ClockSteps :
           ScaledValue(get_seconds_with_micro(start, Some(stop), t_now))
               <= ScaledValue(get_seconds_with_micro(start, Some(Later(stop, d)), t_now))

\* C14: the load_time of every finalized record is the gap from the start
\* stamped at record creation to the stop taken at finalization and is never
\* negative; the computation is non-decreasing in end and gives the gap in
\* seconds with exactly five decimals (2000 microseconds give "0.00200", 200
\* milliseconds "0.20000", 500 seconds "500.00000").
C14_LoadTime ==
    t_load # None => LoadTimeAsClaimed(t_load[1], t_start[1], t_stop[1])

\* the part of C14 that is about start <= end only
LoadTimeForward ==
    (t_load # None /\ GapMicros(t_start[1], t_stop[1]) >= 0) =>
        LoadTimeAsClaimed(t_load[1], t_start[1], t_stop[1])

====
